---- MODULE Spec2Model ----
(***************************************************************************)
(* State-machine model of the VapourSynth RIFE filter (RIFE/plugin.cpp):   *)
(* rifeCreate, rifeGetFrame (with filter) and rifeFree, together with the  *)
(* process-wide GPU-instance counter and the per-filter semaphore.         *)
(*                                                                         *)
(* Floating point values (skip_threshold, psnr_y) are carried in tenths,   *)
(* so 60.0 is 600 and the -1.0 initial value of psnr_y is -10.             *)
(***************************************************************************)
EXTENDS Integers, FiniteSets, Sequences, TLC

VARIABLES
    numGPUInstances,  \* static std::atomic<int> numGPUInstances
    gpuInstance,      \* TRUE while ncnn's GPU instance exists
    d,                \* the RIFEData of the live filter instance, or NoData
    semaphore,        \* tokens available in d->semaphore
    created,          \* what the last rifeCreate call did, and the counter before it
    calls,            \* rifeGetFrame invocations the host has in flight, one per index
    args,             \* what the last call of rifeCreate read of its arguments, when kept
    aborted           \* the process was stopped by a trap

vars == <<numGPUInstances, gpuInstance, d, semaphore, created, calls, aborted, args>>

----------------------------------------------------------------------------
(* Bounds of the model *)

\* frame contexts the host keeps in flight at once
MaxInFlight == 2
\* rifeCreate calls that fail before acquiring the GPU instance, while the counter is not above 0
MaxUnderflow == 1
\* output indices the host asks for at each end of a long clip
EdgeIndices == 3
\* the frames of the source clip of the filter whose invocations are followed to their end
LiveFrames == 3

----------------------------------------------------------------------------
(* 32-bit int arithmetic *)

INT_MAX == 2147483647
INT_MIN == -INT_MAX - 1

\* x + y in two's complement, for x, y in INT_MIN..INT_MAX
AddWrap(x, y) ==
    IF x >= 0 /\ y >= 0 /\ y > INT_MAX - x THEN ((x + INT_MIN) + y) + INT_MIN
    ELSE IF x < 0 /\ y < 0 /\ y < INT_MIN - x THEN ((x - INT_MIN) + y) - INT_MIN
    ELSE x + y

\* a * b in two's complement, for b >= 0
RECURSIVE MulWrap(_, _)
MulWrap(a, b) ==
    IF b = 0 THEN 0
    ELSE LET h == MulWrap(a, b \div 2)
         IN  AddWrap(AddWrap(h, h), IF b % 2 = 1 THEN a ELSE 0)

\* the mathematical product of non-negative a and b is representable as int
MulFits(a, b) == b = 0 \/ a <= INT_MAX \div b

\* int * int for non-negative operands.  Signed overflow is undefined: the
\* build either wraps (the multiply instruction) or traps (-ftrapv, UBSan).
IntMul(a, b) ==
    IF MulFits(a, b) THEN {[trap |-> FALSE, v |-> a * b]}
    ELSE {[trap |-> FALSE, v |-> MulWrap(a, b)], [trap |-> TRUE, v |-> 0]}

\* int / int and int % int, b > 0: C++ truncates toward zero
IntDiv(a, b) == IF a >= 0 \/ a % b = 0 THEN a \div b ELSE (a \div b) + 1
IntMod(a, b) == a - b * IntDiv(a, b)

----------------------------------------------------------------------------
(* Arguments of rifeCreate and the environment it reads *)

\* an optional argument: err is mapGet*'s error flag, v the value returned
None == [err |-> TRUE, v |-> 0]
Some(x) == [err |-> FALSE, v |-> x]
Opt(S) == {None} \cup {Some(x) : x \in S}

ModelInputs == Opt({-1, 0, 5, 9, 10})
MultiplierInputs == Opt({1, 2, 3})
DivisorInputs == Opt({0, 1, 2, 3})
GpuIdInputs == Opt({-1, 0, 1})
GpuThreadInputs == Opt({0, 1, 2, 3})
ThresholdInputs == Opt({-10, 0, 600, 610})
\* numFrames of the source clip
NumFramesInputs == {1, 2, 3, INT_MAX}
\* model_path: absent, or a directory whose name holds the given text
ModelPathInputs == {"", "rife-v4", "other"}

\* the GPUs of the machine, as ncnn::get_gpu_count() reports them
GpuCount == 1
\* the compute queues of a GPU, as compute_queue_count() reports them
ComputeQueueCount == 2

\* no filter instance
NoData ==
    [live |-> FALSE, srcFrames |-> 0, numFrames |-> 0, multiplier |-> 0, divisor |-> 0,
     sceneChange |-> FALSE, skip |-> FALSE, skip_threshold |-> 0, gpuThread |-> 0]

NoCreate == [out |-> "none", before |-> 0]

\* what a call of rifeCreate read of its arguments: mode is "off" when the
\* arguments are not kept, "armed" before the call, "early" for a call
\* that ended before it read them, "checked" for one that ended in the
\* argument checks, "full" for one that went on to list_gpu
ArgsRead(mode, multiplier, divisor, gpuThread, skip_threshold, numFrames, rife_v4, list_gpu) ==
    [mode |-> mode, multiplier |-> multiplier, divisor |-> divisor, gpuThread |-> gpuThread,
     skip_threshold |-> skip_threshold, numFrames |-> numFrames,
     rife_v4 |-> rife_v4, list_gpu |-> list_gpu]
NoArgs == ArgsRead("off", 0, 0, 0, 0, 0, FALSE, FALSE)
ArmedArgs == ArgsRead("armed", 0, 0, 0, 0, 0, FALSE, FALSE)
EarlyArgs == ArgsRead("early", 0, 0, 0, 0, 0, FALSE, FALSE)
ArgsOf(mode, cfg, rife_v4, list_gpu) ==
    ArgsRead(mode, cfg.multiplier, cfg.divisor, cfg.gpuThread, cfg.skip_threshold,
             cfg.srcFrames, rife_v4, list_gpu)
Record(a) == args' = IF args.mode = "off" THEN args ELSE a

Init ==
    /\ numGPUInstances = 0
    /\ gpuInstance = FALSE
    /\ d = NoData
    /\ semaphore = 0
    /\ created = NoCreate
    /\ calls = {}
    /\ aborted = FALSE
    /\ args = NoArgs

----------------------------------------------------------------------------
(* rifeCreate *)

\* the argument checks, in the order of the code: the message thrown, or ""
Validate(model, multiplier, divisor, gpuId, gpuThread, skip_threshold, numFrames) ==
    IF model < 0 \/ model > 9 THEN "model must be between 0 and 9 (inclusive)"
    ELSE IF multiplier < 2 THEN "multiplier must be greater than 1"
    ELSE IF divisor < 1 THEN "divisor must be greater than 0"
    ELSE IF gpuId < 0 \/ gpuId >= GpuCount THEN "invalid GPU device"
    ELSE IF gpuThread < 1 \/ gpuThread > ComputeQueueCount THEN "gpu_thread out of range"
    ELSE IF skip_threshold < 0 \/ skip_threshold > 600
         THEN "skip_threshold must be between 0.0 and 60.0 (inclusive)"
    ELSE IF numFrames < 2 THEN "clip's number of frames must be at least 2"
    ELSE IF IntDiv(numFrames, divisor) > IntDiv(INT_MAX, multiplier)
         THEN "resulting clip is too long"
    ELSE ""

\* the model directory chosen when model_path is empty
ModelDir(model) ==
    CASE model = 0 -> "rife"
      [] model = 1 -> "rife-HD"
      [] model = 2 -> "rife-UHD"
      [] model = 3 -> "rife-anime"
      [] model = 4 -> "rife-v2"
      [] model = 5 -> "rife-v2.3"
      [] model = 6 -> "rife-v2.4"
      [] model = 7 -> "rife-v3.0"
      [] model = 8 -> "rife-v3.1"
      [] OTHER -> "rife-v4"

\* modelPath.find(...) != npos, for the directory names of the model
HasRifeV2 == {"rife-v2", "rife-v2.3", "rife-v2.4"}
HasRifeV3 == {"rife-v3.0", "rife-v3.1"}
HasRifeV4 == {"rife-v4"}
HasRife == {"rife", "rife-HD", "rife-UHD", "rife-anime"} \cup HasRifeV2 \cup HasRifeV3 \cup HasRifeV4

\* a slip: the ratio accepted for every model
CheckModel_AnyRatio(dir, paramFileOpens, multiplier, divisor, tta) ==
    IF ~paramFileOpens THEN "failed to load model"
    ELSE IF dir \notin HasRife THEN "unknown model dir type"
    ELSE IF dir \in HasRifeV4 /\ tta THEN "rife-v4 model does not support TTA mode"
    ELSE ""

\* the checks on the model directory and the mode flags: the message thrown, or ""
CheckModel(dir, paramFileOpens, multiplier, divisor, tta) ==
    IF ~paramFileOpens THEN "failed to load model"
    ELSE IF dir \notin HasRife THEN "unknown model dir type"
    ELSE IF dir \notin HasRifeV4 /\ (multiplier # 2 \/ divisor # 1)
         THEN "only rife-v4 model supports custom multiplier"
    ELSE IF dir \in HasRifeV4 /\ tta THEN "rife-v4 model does not support TTA mode"
    ELSE ""

\* how a call of rifeCreate leaves the state
CreateExit(count, gpu, out, data, tokens, trap) ==
    /\ numGPUInstances' = count
    /\ gpuInstance' = gpu
    /\ created' = [out |-> out, before |-> numGPUInstances]
    /\ d' = data
    /\ semaphore' = tokens
    /\ aborted' = trap

\* if (--numGPUInstances == 0) ncnn::destroy_gpu_instance(); return;
\* count and gpu are the counter and the GPU instance when the exit is taken
ReleaseExit(count, gpu, out) ==
    CreateExit(count - 1, IF count - 1 = 0 THEN FALSE ELSE gpu, out, NoData, 0, FALSE)

\* catch (const char* error): mapSetError, freeNode, then the release above
CatchBlock(count, gpu) == ReleaseExit(count, gpu, "error")

\* the helper filters invoked for skip, in order
SkipHelpers == <<"Bicubic", "DuplicateFrames", "Trim", "Metric">>

\* from d->vi.numFrames = numFrames * multiplier / divisor to createVideoFilter
CreateFilter(cfg) ==
    \E p \in IntMul(cfg.srcFrames, cfg.multiplier) :
        IF p.trap
        THEN CreateExit(numGPUInstances + 1, TRUE, "none", NoData, 0, TRUE)
        ELSE CreateExit(numGPUInstances + 1, TRUE, "clip",
                        [cfg EXCEPT !.live = TRUE, !.numFrames = IntDiv(p.v, cfg.divisor)],
                        cfg.gpuThread, FALSE)

\* the skip block: the VMAF plugin and the four helper invocations
CreateSkip(cfg) ==
    IF ~cfg.skip THEN CreateFilter(cfg)
    ELSE \E vmaf \in BOOLEAN :
            IF ~vmaf THEN CatchBlock(numGPUInstances + 1, TRUE)
            ELSE \E failing \in 0..Len(SkipHelpers) :
                    IF failing # 0 THEN ReleaseExit(numGPUInstances + 1, TRUE, "error")
                    ELSE CreateFilter(cfg)

\* from list_gpu to the construction of the semaphore
CreateModel(cfg, model) ==
    \E list_gpu \in BOOLEAN, modelPath \in ModelPathInputs :
        LET dir == IF modelPath = "" THEN ModelDir(model) ELSE modelPath
            a == ArgsOf("full", cfg, dir \in HasRifeV4, list_gpu)
        IN  IF list_gpu
            THEN \E textFails \in BOOLEAN :
                    /\ ReleaseExit(numGPUInstances + 1, TRUE, IF textFails THEN "error" ELSE "text")
                    /\ Record(a)
            ELSE \E paramFileOpens \in BOOLEAN, tta \in BOOLEAN :
                    /\ IF CheckModel(dir, paramFileOpens, cfg.multiplier, cfg.divisor, tta) # ""
                       THEN CatchBlock(numGPUInstances + 1, TRUE)
                       ELSE CreateSkip(cfg)
                    /\ Record(a)

\* the arguments read after the GPU instance is acquired, with their defaults
CreateArgs ==
    \E model \in ModelInputs, multiplier \in MultiplierInputs, divisor \in DivisorInputs,
       gpuId \in GpuIdInputs, gpuThread \in GpuThreadInputs,
       skip_threshold \in ThresholdInputs, numFrames \in NumFramesInputs :
        LET m == IF model.err THEN 5 ELSE model.v
            cfg == [live |-> FALSE,
                    srcFrames |-> numFrames,
                    numFrames |-> numFrames,
                    multiplier |-> IF multiplier.err THEN 2 ELSE multiplier.v,
                    divisor |-> IF divisor.err THEN 1 ELSE divisor.v,
                    sceneChange |-> FALSE,
                    skip |-> FALSE,
                    skip_threshold |-> IF skip_threshold.err THEN 600 ELSE skip_threshold.v,
                    gpuThread |-> IF gpuThread.err THEN 2 ELSE gpuThread.v]
            g == IF gpuId.err THEN 0 ELSE gpuId.v
        IN  IF Validate(m, cfg.multiplier, cfg.divisor, g, cfg.gpuThread,
                        cfg.skip_threshold, cfg.srcFrames) # ""
            THEN CatchBlock(numGPUInstances + 1, TRUE) /\ Record(ArgsOf("checked", cfg, FALSE, FALSE))
            ELSE \E sc \in BOOLEAN, skip \in BOOLEAN :
                    CreateModel([cfg EXCEPT !.sceneChange = sc, !.skip = skip], m)

\* The host holds one RIFE filter at a time: it calls rifeCreate while no
\* filter instance is live.
rifeCreate ==
    /\ ~aborted
    /\ ~d.live
    /\ numGPUInstances > -MaxUnderflow
    /\ args.mode \in {"off", "armed"}
    /\ UNCHANGED calls
    /\ \E formatOK \in BOOLEAN :
          IF ~formatOK THEN CatchBlock(numGPUInstances, gpuInstance) /\ Record(EarlyArgs)
          ELSE \E gpuFails \in BOOLEAN :
                  IF gpuFails THEN CatchBlock(numGPUInstances, gpuInstance) /\ Record(EarlyArgs)
                  ELSE CreateArgs

----------------------------------------------------------------------------
(* rifeFree *)

rifeFree ==
    /\ ~aborted
    /\ d.live
    /\ calls = {}
    /\ d' = NoData
    /\ semaphore' = 0
    /\ numGPUInstances' = numGPUInstances - 1
    /\ gpuInstance' = IF numGPUInstances - 1 = 0 THEN FALSE ELSE gpuInstance
    /\ UNCHANGED <<created, calls, aborted, args>>

----------------------------------------------------------------------------
(* Frames, and what the host and the engine supply *)

\* a frame of a node: node is "node" (d->node) or "psnr" (d->psnr)
Frame(node, n) == [node |-> node, n |-> n]
NullFrame == Frame("null", -1)

\* _DurationNum and _DurationDen of a source frame: err is mapGetInt's error flag
Props(errNum, num, errDen, den) == [errNum |-> errNum, num |-> num, errDen |-> errDen, den |-> den]
NoProps == Props(TRUE, 0, TRUE, 0)
\* the duration properties of the frames of the source clip
SourceProps(n) ==
    CASE n % 4 = 0 -> Props(FALSE, 1, FALSE, 24)
      [] n % 4 = 1 -> Props(FALSE, 1, TRUE, 0)
      [] n % 4 = 2 -> Props(TRUE, 0, FALSE, 24)
      [] OTHER -> NoProps

\* _SceneChangeNext of a source frame, as far as the filter looks at it
FlagInputs == IF d.sceneChange THEN BOOLEAN ELSE {FALSE}

\* psnr_y of a metric frame, in tenths
ScoreInputs == {599, 600}

\* what rife->process returns
EngineResults == {0, -1}

NoFrame == [kind |-> "none", src0 |-> NullFrame, src1 |-> NullFrame, timestep |-> 0, props |-> NoProps]

\* the indices the host asks the filter for: those of its clip, the first and
\* last EdgeIndices of them when the clip is longer
Min(a, b) == IF a < b THEN a ELSE b
Max(a, b) == IF a > b THEN a ELSE b
HostIndices ==
    (0..(Min(EdgeIndices, d.numFrames) - 1)) \cup (Max(0, d.numFrames - EdgeIndices)..(d.numFrames - 1))

----------------------------------------------------------------------------
(* vsh::muldivRational *)

RECURSIVE Gcd(_, _)
Gcd(a, b) == IF b = 0 THEN a ELSE Gcd(b, a % b)

muldivRational(num, den, mul, div) ==
    IF den = 0 THEN [num |-> num, den |-> den]
    ELSE LET a == Gcd(num * mul, den * div)
         IN  [num |-> (num * mul) \div a, den |-> (den * div) \div a]

----------------------------------------------------------------------------
(* rifeGetFrame *)

\* a slip: the source frame number rounded up
frameNumOf_RoundUp(product) ==
    IF IntMod(product, d.multiplier) = 0 THEN IntDiv(product, d.multiplier)
    ELSE IntDiv(product, d.multiplier) + 1

\* frameNum and remainder, from the product n * d->divisor
frameNumOf(product) == IntDiv(product, d.multiplier)
remainderOf(product) == IntMod(product, d.multiplier)

\* a slip: the end of the clip not looked at
Interpolate_NoBoundary(n, remainder) == remainder # 0

\* a slip: the boundary taken as the last output index
Interpolate_LastOnly(n, remainder) == remainder # 0 /\ n < d.numFrames - 1

\* Should the frame be interpolated && can the frame be interpolated
Interpolate(n, remainder) == remainder # 0 /\ n < d.numFrames - d.multiplier

\* a slip: the metric frame requested only with the second source frame
Requests_MetricWithSecond(n, frameNum, remainder) ==
    {Frame("node", frameNum)}
        \cup (IF Interpolate(n, remainder) THEN {Frame("node", frameNum + 1)} ELSE {})
        \cup (IF d.skip /\ Interpolate(n, remainder) THEN {Frame("psnr", frameNum)} ELSE {})

\* a slip: the second source frame requested without looking at remainder and boundary
Requests_AlwaysSecond(n, frameNum, remainder) ==
    {Frame("node", frameNum), Frame("node", frameNum + 1)}
        \cup (IF d.skip THEN {Frame("psnr", frameNum)} ELSE {})

\* a slip: the metric frame not requested
Requests_NoMetric(n, frameNum, remainder) ==
    {Frame("node", frameNum)}
        \cup (IF Interpolate(n, remainder) THEN {Frame("node", frameNum + 1)} ELSE {})

\* the requestFrameFilter calls of the arInitial branch
Requests(n, frameNum, remainder) ==
    {Frame("node", frameNum)}
        \cup (IF Interpolate(n, remainder) THEN {Frame("node", frameNum + 1)} ELSE {})
        \cup (IF d.skip THEN {Frame("psnr", frameNum)} ELSE {})

\* a slip: the threshold itself excluded
SkipInterpolation_Exclusive(sceneChange, psnr_y) == sceneChange \/ psnr_y > d.skip_threshold

\* if (sceneChange || psnr_y >= d->skip_threshold): copy src0 instead of interpolating
SkipInterpolation(sceneChange, psnr_y) == sceneChange \/ psnr_y >= d.skip_threshold

\* the frame copyFrame(src0) returns: the image and the properties of src0
copyFrame(src0) ==
    [kind |-> "copy", src0 |-> src0, src1 |-> NullFrame, timestep |-> 0, props |-> SourceProps(src0.n)]

\* the frame newVideoFrame(..., src0, core) returns, as filter fills it from src0 and src1
newVideoFrame(src0, src1, remainder) ==
    [kind |-> "new", src0 |-> src0, src1 |-> src1, timestep |-> remainder, props |-> SourceProps(src0.n)]

\* a slip: the duration rescaled and written when either property is present
Rescale_Either(props) ==
    IF ~props.errNum \/ ~props.errDen
    THEN LET r == muldivRational(props.num, props.den, d.divisor, d.multiplier)
         IN  Props(FALSE, r.num, FALSE, r.den)
    ELSE props

\* the duration properties of dst after lines 123-131
Rescale(props) ==
    IF ~props.errNum /\ ~props.errDen
    THEN LET r == muldivRational(props.num, props.den, d.divisor, d.multiplier)
         IN  [props EXCEPT !.num = r.num, !.den = r.den]
    ELSE props

\* an invocation after rifeGetFrame(n, arInitial, ...) returned nullptr
Suspended(n, product) ==
    [n |-> n, pc |-> "suspended", reason |-> "arInitial",
     frameNum |-> frameNumOf(product), remainder |-> remainderOf(product),
     requested |-> Requests(n, frameNumOf(product), remainderOf(product)),
     src0 |-> NullFrame, src1 |-> NullFrame, psnr |-> NullFrame,
     fetched |-> {}, freed |-> <<>>,
     flag |-> FALSE, flagOf |-> NullFrame, sceneChange |-> FALSE,
     psnr_y |-> -10, scoreOf |-> NullFrame,
     dst |-> NoFrame, returned |-> FALSE,
     held |-> 0, acquired |-> 0, processed |-> 0, result |-> 0]

\* a slip: the metric frame not freed
FreeFrames_NoMetric(c) == SelectSeq(<<c.src0, c.src1>>, LAMBDA f : f # NullFrame)

\* freeFrame(src0); freeFrame(src1); freeFrame(psnr): freeing a null pointer does nothing
FreeFrames(c) == SelectSeq(<<c.src0, c.src1, c.psnr>>, LAMBDA f : f # NullFrame)

\* lines 123-136: rescale the duration of dst, free the fetched frames, return dst
Return(c, dst) ==
    [c EXCEPT !.pc = "done",
              !.dst = [dst EXCEPT !.props = Rescale(dst.props)],
              !.freed = FreeFrames(c),
              !.returned = TRUE]

\* a slip: the second frame of the pair copied
PassThrough_Second(c, src0, src1) == Return(c, copyFrame(src1))

\* dst = vsapi->copyFrame(src0, core), and the rest of rifeGetFrame
PassThrough(c, src0, src1) == Return(c, copyFrame(src0))

\* the host asks for output frame n: activationReason == arInitial
GetFrameInitial ==
    /\ ~aborted
    /\ d.live
    /\ Cardinality(calls) < MaxInFlight
    /\ \E n \in HostIndices :
          /\ \A c \in calls : c.n # n
          /\ \E p \in IntMul(n, d.divisor) :
                IF p.trap
                THEN aborted' = TRUE /\ calls' = calls
                ELSE aborted' = FALSE /\ calls' = calls \cup {Suspended(n, p.v)}
    /\ UNCHANGED <<numGPUInstances, gpuInstance, d, semaphore, created, args>>

\* a slip: the flag read from the second frame of the pair
SceneChangeFrame_Second(src0, src1) == src1

\* the frame whose _SceneChangeNext is read: getFramePropertiesRO(src0)
SceneChangeFrame(src0, src1) == src0

\* the frame whose psnr_y is read: getFramePropertiesRO(psnr)
ScoreFrame(src0, psnr) == psnr

\* activationReason == arAllFramesReady for invocation c, up to the return
\* of a copy of src0 or to semaphore->acquire() in filter
ReadyBy(c) ==
    /\ ~aborted
    /\ c.pc = "suspended"
    /\ LET src0 == Frame("node", c.frameNum)
           src1 == Frame("node", c.frameNum + 1)
           psnr == Frame("psnr", c.frameNum)
           c0 == [c EXCEPT !.reason = "arAllFramesReady", !.src0 = src0, !.fetched = {src0}]
       IN  IF Interpolate(c.n, c.remainder)
           THEN \E flag \in FlagInputs, score \in ScoreInputs :
                  LET sceneChange == IF d.sceneChange THEN flag ELSE FALSE
                      psnr_y == IF d.skip THEN score ELSE -10
                      got == {src0} \cup (IF d.skip THEN {psnr} ELSE {})
                      c1 == [c0 EXCEPT !.flag = flag,
                                       !.flagOf = IF d.sceneChange
                                                  THEN SceneChangeFrame(src0, src1)
                                                  ELSE NullFrame,
                                       !.sceneChange = sceneChange,
                                       !.psnr = IF d.skip THEN psnr ELSE NullFrame,
                                       !.scoreOf = IF d.skip THEN ScoreFrame(src0, psnr)
                                                   ELSE NullFrame,
                                       !.psnr_y = psnr_y,
                                       !.fetched = got]
                  IN  IF SkipInterpolation(sceneChange, psnr_y)
                      THEN calls' = (calls \ {c}) \cup {PassThrough(c1, src0, src1)}
                      ELSE calls' = (calls \ {c}) \cup
                              {[c1 EXCEPT !.pc = "acquire",
                                          !.src1 = src1,
                                          !.fetched = got \cup {src1},
                                          !.dst = newVideoFrame(src0, src1, c.remainder)]}
           ELSE calls' = (calls \ {c}) \cup {PassThrough(c0, src0, src1)}
    /\ UNCHANGED <<numGPUInstances, gpuInstance, d, semaphore, created, aborted, args>>

GetFrameReady == \E c \in calls : ReadyBy(c)

\* a slip: no wait for a token
TokenAvailable_NoWait == TRUE

\* std::counting_semaphore::acquire blocks until the counter is above 0
TokenAvailable == semaphore > 0

\* a slip: the engine entered without a token
TakeToken_Skipped(c) == [c EXCEPT !.pc = "process"]

\* the invocation after acquire() returned: it holds a token and enters rife->process
TakeToken(c) == [c EXCEPT !.pc = "process", !.held = c.held + 1, !.acquired = c.acquired + 1]

\* d->semaphore->acquire() returns in invocation c
AcquireBy(c) ==
    /\ ~aborted
    /\ TokenAvailable
    /\ c.pc = "acquire"
    /\ calls' = (calls \ {c}) \cup {TakeToken(c)}
    /\ semaphore' = semaphore - (TakeToken(c).held - c.held)
    /\ UNCHANGED <<numGPUInstances, gpuInstance, d, created, aborted, args>>

FilterAcquire == \E c \in calls : AcquireBy(c)

\* d->rife->process(...) returns in invocation c
ProcessBy(c) ==
    /\ ~aborted
    /\ c.pc = "process"
    /\ \E r \in EngineResults :
          calls' = (calls \ {c}) \cup
                {[c EXCEPT !.pc = "release", !.processed = c.processed + 1, !.result = r,
                           !.dst = [c.dst EXCEPT !.kind = "rife"]]}
    /\ UNCHANGED <<numGPUInstances, gpuInstance, d, semaphore, created, aborted, args>>

FilterProcess == \E c \in calls : ProcessBy(c)

\* a slip: release() left out
ReleaseToken_Never(c) == c

\* a slip: the token kept when the engine call failed
ReleaseToken_UnlessFailed(c) == IF c.result # 0 THEN c ELSE [c EXCEPT !.held = c.held - 1]

\* the token of an invocation whose engine call returned is given back
ReleaseToken(c) == [c EXCEPT !.held = c.held - 1]

\* d->semaphore->release() in invocation c, and the rest of rifeGetFrame
ReleaseBy(c) ==
    /\ ~aborted
    /\ c.pc = "release"
    /\ calls' = (calls \ {c}) \cup {Return(ReleaseToken(c), c.dst)}
    /\ semaphore' = semaphore + (c.held - ReleaseToken(c).held)
    /\ UNCHANGED <<numGPUInstances, gpuInstance, d, created, aborted, args>>

FilterRelease == \E c \in calls : ReleaseBy(c)

\* a slip: any activation after the first taken as arAllFramesReady
Failed_AsReady(c) ==
    Return([c EXCEPT !.src0 = Frame("node", c.frameNum), !.fetched = {Frame("node", c.frameNum)}],
           copyFrame(Frame("node", c.frameNum)))

\* neither branch is taken: return nullptr
Failed(c) == [c EXCEPT !.pc = "failed"]

\* any other activationReason (arError)
GetFrameError ==
    /\ ~aborted
    /\ \E c \in calls :
          /\ c.pc = "suspended"
          /\ calls' = (calls \ {c}) \cup {Failed([c EXCEPT !.reason = "arError"])}
    /\ UNCHANGED <<numGPUInstances, gpuInstance, d, semaphore, created, aborted, args>>

\* the host takes the result of a finished invocation and drops its frame context
HostCollect ==
    /\ ~aborted
    /\ \E c \in calls :
          /\ c.pc \in {"done", "failed"}
          /\ calls' = calls \ {c}
    /\ UNCHANGED <<numGPUInstances, gpuInstance, d, semaphore, created, aborted, args>>

Next ==
    \/ rifeCreate
    \/ rifeFree
    \/ GetFrameInitial
    \/ GetFrameReady
    \/ FilterAcquire
    \/ FilterProcess
    \/ FilterRelease
    \/ GetFrameError
    \/ HostCollect

Spec == Init /\ [][Next]_vars

\* rifeCreate and rifeFree alone, the arguments of the call kept
InitCreate ==
    /\ numGPUInstances = 0
    /\ gpuInstance = FALSE
    /\ d = NoData
    /\ semaphore = 0
    /\ created = NoCreate
    /\ calls = {}
    /\ aborted = FALSE
    /\ args = ArmedArgs

NextCreate ==
    \/ rifeCreate
    \/ rifeFree

SpecCreate == InitCreate /\ [][NextCreate]_vars

\* A filter as rifeCreate leaves it with the default ratio, threshold and
\* flags on a clip of LiveFrames frames, and the invocations on it alone.
LiveData(gpuThread) ==
    [live |-> TRUE, srcFrames |-> LiveFrames, numFrames |-> IntDiv(LiveFrames * 2, 1),
     multiplier |-> 2, divisor |-> 1, sceneChange |-> FALSE, skip |-> FALSE,
     skip_threshold |-> 600, gpuThread |-> gpuThread]
LiveIndices == 0..(LiveFrames * 2 - 1)
\* gpu_thread of that filter: the least value and the default
LiveThreads == {1, 2}

InitLive ==
    /\ numGPUInstances = 1
    /\ gpuInstance = TRUE
    /\ \E gpuThread \in LiveThreads :
          /\ d = LiveData(gpuThread)
          /\ semaphore = gpuThread
    /\ created = [out |-> "clip", before |-> 0]
    /\ calls = {}
    /\ aborted = FALSE
    /\ args = NoArgs

NextLive ==
    \/ GetFrameInitial
    \/ GetFrameReady
    \/ FilterAcquire
    \/ FilterProcess
    \/ FilterRelease
    \/ GetFrameError
    \/ HostCollect

\* the steps of the invocation for output index n
AcquireOf(n) == \E c \in calls : c.n = n /\ AcquireBy(c)
ProcessOf(n) == \E c \in calls : c.n = n /\ ProcessBy(c)
ReleaseOf(n) == \E c \in calls : c.n = n /\ ReleaseBy(c)

\* Each engine call returns and the thread goes on to release(); an
\* invocation blocked in acquire() is woken when tokens keep coming back.
Fairness ==
    \A n \in LiveIndices :
        /\ WF_vars(ProcessOf(n))
        /\ WF_vars(ReleaseOf(n))
        /\ SF_vars(AcquireOf(n))

SpecLive == InitLive /\ [][NextLive]_vars /\ Fairness

----------------------------------------------------------------------------
(* Properties *)

\* the invocations inside rife->process
InEngine == {c \in calls : c.pc = "process"}
\* the invocations between acquire() and release()
Holding == {c \in calls : c.held > 0}

\* C1: with gpu_thread = N, no more than N invocations are inside
\* rife->process at once, and when no invocation is between acquire() and
\* release() the semaphore holds N tokens again.
C1_GateBound ==
    d.live =>
        /\ Cardinality(InEngine) <= d.gpuThread
        /\ (\A c \in calls : c.pc \notin {"process", "release"}) => semaphore = d.gpuThread

\* all N tokens are taken and a further invocation waits in acquire()
C1_Witness ==
    /\ d.live
    /\ Cardinality(InEngine) = d.gpuThread
    /\ \E c \in calls : c.pc = "acquire"

\* C2 (as claimed): for every accepted configuration srcFrames * multiplier
\* fits in a signed 32-bit int, the exposed frame count is
\* floor(srcFrames * multiplier / divisor), and n * divisor fits for every
\* output index the host asks for.
C2_ProductFits ==
    d.live =>
        /\ MulFits(d.srcFrames, d.multiplier)
        /\ d.numFrames = (d.srcFrames * d.multiplier) \div d.divisor
        /\ \A n \in HostIndices : MulFits(n, d.divisor)

\* C3: the source frame number computed for an output index n of the clip
\* is floor(n * divisor / multiplier) and lies below the source frame count.
C3_SourceIndex ==
    \A c \in calls :
        /\ c.frameNum = (c.n * d.divisor) \div d.multiplier
        /\ c.frameNum < d.srcFrames

\* the last output index of a clip maps to the last source frame, between two frames
C3_Witness ==
    \E c \in calls :
        /\ c.n = d.numFrames - 1
        /\ c.remainder # 0
        /\ c.frameNum = d.srcFrames - 1
        /\ d.numFrames = (d.srcFrames * d.multiplier) \div d.divisor

\* C4 (as claimed): a call of rifeCreate that ends in an error leaves
\* numGPUInstances at its value before the call and creates no filter.
C4_FailureRestoresCount ==
    created.out = "error" => numGPUInstances = created.before /\ ~d.live

\* C5: the token taken for an engine call is given back whatever the call
\* returns: the tokens in the semaphore and those held by invocations add up
\* to N, an invocation holds at most one, and a finished invocation holds
\* none, also when its engine call failed.
C5_TokenReleased ==
    d.live =>
        /\ \A c \in calls : c.held \in {0, 1} /\ (c.pc = "done" => c.held = 0)
        /\ semaphore + Cardinality(Holding) = d.gpuThread

\* an invocation whose engine call failed has returned and all N tokens are available
C5_Witness ==
    /\ d.live
    /\ semaphore = d.gpuThread
    /\ \E c \in calls : c.pc = "done" /\ c.processed = 1 /\ c.result # 0

\* C6: for an output index n >= numFrames - multiplier the frame
\* frameNum + 1 is neither requested nor fetched, the engine is not called,
\* and the frame returned is a copy of source frame frameNum.
C6_BoundaryPassThrough ==
    \A c \in calls :
        c.n >= d.numFrames - d.multiplier =>
            /\ Frame("node", c.frameNum + 1) \notin c.requested \cup c.fetched
            /\ c.pc \in {"suspended", "failed", "done"}
            /\ c.acquired = 0 /\ c.processed = 0
            /\ c.pc = "done" => c.dst.kind = "copy" /\ c.dst.src0 = Frame("node", c.frameNum)

\* a frame at the end of the clip, between two source frames, was returned
C6_Witness ==
    \E c \in calls :
        /\ c.n >= d.numFrames - d.multiplier
        /\ c.remainder # 0
        /\ c.pc = "done"

\* C7 (as claimed): the metric frame is requested if and only if skip is
\* enabled and the second source frame is needed.
C7_MetricIffSecond ==
    \A c \in calls :
        Frame("psnr", c.frameNum) \in c.requested
            <=> (d.skip /\ c.remainder # 0 /\ c.n < d.numFrames - d.multiplier)

\* C7 (amended): the metric frame at frameNum is requested if and only if
\* skip is enabled, whether or not the second source frame is needed; it is
\* fetched only when the second source frame is needed.
C7_MetricIffSkip ==
    \A c \in calls :
        /\ Frame("psnr", c.frameNum) \in c.requested <=> d.skip
        /\ Frame("psnr", c.frameNum) \in c.fetched =>
              d.skip /\ c.remainder # 0 /\ c.n < d.numFrames - d.multiplier

\* the metric frame was requested for a frame that coincides with a source frame
C7_Witness ==
    \E c \in calls :
        /\ c.remainder = 0
        /\ Frame("psnr", c.frameNum) \in c.requested
        /\ c.pc = "done"

\* the invocations that got past the decision between copy and interpolation
Decided == {c \in calls : c.pc \in {"acquire", "process", "release", "done"}}

\* C8: when the second source frame is needed, a copy of src0 is returned
\* if scene-change detection is enabled and the flag is set, or skip is
\* enabled and the score is at least the threshold; otherwise the frame is
\* interpolated.
C8_Decision ==
    \A c \in Decided :
        (c.remainder # 0 /\ c.n < d.numFrames - d.multiplier) =>
            (c.dst.kind = "copy"
                <=> ((d.sceneChange /\ c.flag) \/ (d.skip /\ c.psnr_y >= d.skip_threshold)))

\* a score equal to the threshold, without a scene change, gave a copy
C8_Witness ==
    \E c \in Decided :
        /\ c.remainder # 0 /\ c.n < d.numFrames - d.multiplier
        /\ d.skip /\ ~c.sceneChange
        /\ c.psnr_y = d.skip_threshold
        /\ c.dst.kind = "copy"

\* the reasons for which a frame is passed through
PassThroughCase(c) ==
    \/ c.remainder = 0
    \/ c.n >= d.numFrames - d.multiplier
    \/ d.sceneChange /\ c.flag
    \/ d.skip /\ c.psnr_y >= d.skip_threshold

\* C9: a frame returned in a pass-through case (remainder 0, end of the
\* clip, scene change, score at least the threshold), and any frame returned
\* as a copy, is a copy of source frame floor(n * divisor / multiplier), the
\* first of the pair, and its invocation neither took a token nor called
\* the engine.
C9_CopyOfFirst ==
    \A c \in calls :
        (c.pc = "done" /\ (c.dst.kind = "copy" \/ PassThroughCase(c))) =>
            /\ c.dst.kind = "copy"
            /\ c.dst.src0 = Frame("node", (c.n * d.divisor) \div d.multiplier)
            /\ c.dst.src1 = NullFrame
            /\ c.acquired = 0 /\ c.held = 0 /\ c.processed = 0

\* a copy was returned for a pair of frames because of a scene change
C9_Witness ==
    \E c \in calls :
        /\ c.pc = "done" /\ c.dst.kind = "copy"
        /\ c.remainder # 0 /\ c.sceneChange
        /\ Frame("node", c.frameNum + 1) \in c.requested

\* the state of an invocation between its request phase and its resume phase
C10_RequestPhase ==
    \A c \in calls :
        /\ Frame("node", c.frameNum) \in c.requested
        /\ Frame("node", c.frameNum + 1) \in c.requested
              <=> (c.remainder # 0 /\ c.n < d.numFrames - d.multiplier)
        /\ c.pc = "suspended" =>
              /\ c.fetched = {}
              /\ c.acquired = 0 /\ c.processed = 0
              /\ ~c.returned /\ c.dst = NoFrame

\* a frame is returned only by an invocation that was in flight before the
\* step, and an invocation starts suspended
C10_ResumeAfterRequest ==
    \A c \in calls' :
        /\ c.returned => \E c0 \in calls : c0.n = c.n
        /\ (\A c0 \in calls : c0.n # c.n) => c.pc = "suspended"

\* C10: the request phase for n requests frameNum, requests frameNum + 1
\* exactly when remainder # 0 and n is not at the end of the clip, fetches
\* nothing, calls no engine and returns no frame; a frame is returned only
\* in a later step of the same invocation.
C10_TwoPhases == []C10_RequestPhase /\ [][C10_ResumeAfterRequest]_vars

\* an invocation is suspended with both source frames requested
C10_Witness ==
    \E c \in calls :
        /\ c.pc = "suspended"
        /\ c.requested = {Frame("node", c.frameNum), Frame("node", c.frameNum + 1)}

\* C11: an invocation inside rife->process holds exactly one token, an
\* invocation suspended at the request-phase boundary or ended by an error
\* holds none and has acquired none, and an invocation that returned holds
\* none: tokens are acquired only after the frames were fetched in the
\* resume phase and released before rifeGetFrame returns.
C11_TokenOnlyInEngine ==
    \A c \in calls :
        /\ c.pc = "process" => c.held = 1 /\ c.reason = "arAllFramesReady" /\ c.src1 \in c.fetched
        /\ c.pc \in {"suspended", "failed"} => c.held = 0 /\ c.acquired = 0
        /\ c.pc = "done" => c.held = 0
        /\ c.acquired > 0 => c.reason = "arAllFramesReady"

\* one invocation is inside the engine with its token while another is
\* suspended at the request-phase boundary
C11_Witness ==
    \E c1, c2 \in calls : c1.pc = "process" /\ c1.held = 1 /\ c2.pc = "suspended"

\* C12: the frame rifeGetFrame returns carries the duration of its first
\* source frame times divisor / multiplier, reduced, when that frame has
\* both _DurationNum and _DurationDen, on the copy and on the synthesis
\* branch; when either is absent its duration properties are those of the
\* source frame, nothing written.
C12_DurationRescaled ==
    \A c \in calls :
        c.returned =>
            LET old == SourceProps(c.frameNum)
                new == c.dst.props
            IN  IF ~old.errNum /\ ~old.errDen
                THEN /\ ~new.errNum /\ ~new.errDen
                     /\ new.num * (old.den * d.multiplier) = new.den * (old.num * d.divisor)
                     /\ Gcd(new.num, new.den) = 1
                ELSE new = old

\* a copied frame and a synthesized frame both returned with a rescaled
\* duration, and the ratio is not the identity
C12_Witness ==
    \E c1, c2 \in calls :
        /\ c1.returned /\ c1.dst.kind = "copy"
        /\ c2.returned /\ c2.dst.kind = "rife"
        /\ \A c \in {c1, c2} :
              /\ ~SourceProps(c.frameNum).errNum /\ ~SourceProps(c.frameNum).errDen
              /\ c.dst.props # SourceProps(c.frameNum)

\* C13: when rifeGetFrame returns a frame, each frame it fetched has been
\* freed exactly once and nothing else has been freed; before the return
\* nothing is freed.
C13_FetchedFreedOnce ==
    \A c \in calls :
        /\ c.pc = "done" =>
              /\ \A f \in c.fetched : Cardinality({i \in 1..Len(c.freed) : c.freed[i] = f}) = 1
              /\ \A i \in 1..Len(c.freed) : c.freed[i] \in c.fetched
              /\ c.dst.kind \in {"copy", "rife"}
        /\ c.pc # "done" => c.freed = <<>>

\* a synthesized frame returned after three frames were fetched and freed,
\* and a copy returned after the score decided against synthesis
C13_Witness ==
    \E c1, c2 \in calls :
        /\ c1.pc = "done" /\ c1.dst.kind = "rife" /\ Cardinality(c1.fetched) = 3 /\ Len(c1.freed) = 3
        /\ c2.pc = "done" /\ c2.dst.kind = "copy" /\ Cardinality(c2.fetched) = 2 /\ Len(c2.freed) = 2

\* the argument conditions the call must reject, for a call that read its arguments
BadArgs(a) ==
    \/ a.multiplier < 2
    \/ a.divisor < 1
    \/ a.gpuThread < 1 \/ a.gpuThread > ComputeQueueCount
    \/ a.skip_threshold < 0 \/ a.skip_threshold > 600
    \/ a.numFrames < 2
    \/ IntDiv(a.numFrames, a.divisor) > IntDiv(INT_MAX, a.multiplier)
\* a model other than rife-v4 with a ratio other than 2/1
BadRatio(a) == a.mode = "full" /\ ~a.rife_v4 /\ (a.multiplier # 2 \/ a.divisor # 1)

C15_ErrorActivation ==
    \A c \in calls :
        c.reason = "arError" =>
            /\ c.pc = "failed" /\ ~c.returned /\ c.dst = NoFrame
            /\ c.fetched = {} /\ c.src0 = NullFrame /\ c.freed = <<>>
            /\ c.held = 0 /\ c.acquired = 0 /\ c.processed = 0
            /\ \A o \in calls \ {c} :
                  /\ o.pc = "suspended" => ENABLED ReadyBy(o)
                  /\ o.pc = "acquire" =>
                        ENABLED AcquireBy(o) \/ \E h \in calls : h.pc \in {"process", "release"}
                  /\ o.pc = "process" => ENABLED ProcessBy(o)
                  /\ o.pc = "release" => ENABLED ReleaseBy(o)

\* an invocation ended by an error beside one that returned a synthesized frame
C15_Witness ==
    \E c, o \in calls :
        c.reason = "arError" /\ c.pc = "failed" /\ o.pc = "done" /\ o.dst.kind = "rife"

\* C17 (as claimed): the scene-change flag is read from the second frame
\* of the pair, frameNum + 1, and the score from the metric frame at frameNum.
C17_FlagOfSecond ==
    \A c \in calls :
        /\ c.flagOf # NullFrame => c.flagOf = Frame("node", c.frameNum + 1)
        /\ c.scoreOf # NullFrame => c.scoreOf = Frame("psnr", c.frameNum)

\* C17: with scene-change detection on, _SceneChangeNext is read from the
\* first frame of the pair, frameNum, and with skip on psnr_y is read
\* from the metric frame at frameNum.
C17_FlagOfFirst ==
    \A c \in calls :
        (c.reason = "arAllFramesReady" /\ Interpolate(c.n, c.remainder)) =>
            /\ d.sceneChange => c.flagOf = Frame("node", c.frameNum)
            /\ d.skip => c.scoreOf = Frame("psnr", c.frameNum)

\* the flag of the first frame and the score of the metric frame were both read
C17_Witness ==
    \E c \in calls :
        /\ d.sceneChange /\ d.skip
        /\ c.flagOf = Frame("node", c.frameNum) /\ c.flag
        /\ c.scoreOf = Frame("psnr", c.frameNum)

\* C19: every frame of the source clip that an invocation requests or
\* fetches has an index of at most the source frame count less one.
C19_SecondInClip ==
    \A c \in calls :
        \A f \in c.requested \cup c.fetched :
            f.node = "node" => 0 <= f.n /\ f.n <= d.srcFrames - 1

\* the second frame fetched is the last frame of the source clip
C19_Witness ==
    \E c \in calls :
        /\ Interpolate(c.n, c.remainder)
        /\ c.src1 = Frame("node", d.srcFrames - 1)
        /\ c.src1 \in c.requested /\ c.src1 \in c.fetched

\* C20: every frame an invocation fetched was requested in its request
\* phase; without skip no frame of the metric clip is requested or fetched.
C20_FetchedWereRequested ==
    \A c \in calls :
        /\ c.fetched \subseteq c.requested
        /\ ~d.skip => \A f \in c.requested \cup c.fetched : f.node # "psnr"

\* the three frames of a synthesis with skip were requested and fetched
C20_Witness ==
    \E c \in calls :
        /\ d.skip /\ c.pc = "done" /\ c.dst.kind = "rife"
        /\ c.fetched = c.requested /\ Cardinality(c.fetched) = 3

\* C18 (as claimed): between calls numGPUInstances is not negative and
\* equals the number of live filter instances, and the GPU instance exists
\* while a filter instance is live.
C18_CountIsLiveFilters ==
    /\ numGPUInstances >= 0
    /\ numGPUInstances = (IF d.live THEN 1 ELSE 0)
    /\ d.live => gpuInstance

\* C16: an invocation that has fetched its frames and waits for a token
\* eventually returns a frame, whatever the other invocations do, given
\* that engine calls return and the semaphore wakes its waiters fairly.
C16_ResumeReturns ==
    \A n \in LiveIndices :
        (\E c \in calls : c.n = n /\ c.pc = "acquire")
            ~> (\E c \in calls : c.n = n /\ c.pc = "done" /\ c.returned /\ c.held = 0)

\* an invocation waits in acquire() while every token is held by others
C16_Witness ==
    /\ semaphore = 0
    /\ \E c \in calls : c.pc = "acquire"
    /\ Cardinality(Holding) = d.gpuThread

====
